---------------------------- MODULE Spec2Model ----------------------------
(***************************************************************************)
(* Conway's Game of Life on a torus, as implemented by class GameofLife    *)
(* of main.py: the constructor's seeded random board, the naive step       *)
(* (_step_unoptimized), the convolution step (_step_optimized) and the     *)
(* driver loop (run_and_plot).  Plotting is left out: it only reads the    *)
(* board.                                                                  *)
(*                                                                         *)
(* A board is a function from the positions <<i, j>> of an N x N grid to   *)
(* numbers, with the numpy dtype of the array beside it: the constructor   *)
(* makes an int64 array, the naive step a float64 array (np.zeros) and     *)
(* the convolution step a bool array (np.logical_or).  A bool cell is      *)
(* kept as 0/1 and the dtype decides the arithmetic done on it.            *)
(***************************************************************************)
EXTENDS Integers, Sequences, FiniteSets, TLC

\* ---- bounds of the model ----
\* largest grid dimension of which every 0/1 grid is a starting grid
\* (SpecGrid), and largest dim a simulation is constructed with (Spec)
MaxDim == 3
\* largest grid dimension of the sparse starting grids (SpecSparse)
MaxSparseDim == 4
\* most ALIVE cells of a sparse starting grid (SpecSparse)
MaxLive == 4
\* max_step ranges over 0..MaxStep
MaxStep == 2
\* seed ranges over 0..MaxSeed
MaxSeed == 1
\* direct calls of a step method on one simulation
MaxCalls == 2
\* largest cell value of a malformed board (SpecInvalid)
MaxCell == 2
\* largest dimension of a malformed board (SpecInvalid)
MaxBadDim == 2

\* the simulations of __main__: game and game2
Objs == {"game", "game2"}

\* sparseness in percent: 0, 0.5 and 1
Sparsenesses == {0, 50, 100}

\* args: the arguments the script constructs its simulations with;
\* rng: the state of numpy's global random generator;
\* sim: the simulation objects
VARIABLES args, rng, sim

vars == <<args, rng, sim>>

\* ---- grids ----
Range(n) == 0 .. (n - 1)

Pos(n) == Range(n) \X Range(n)

\* the value a simulation holds for self.board before __init__ has set it
NoBoard == <<>>

\* ---- numpy's global random generator ----
\* The generator is abstracted to a linear congruential generator over
\* 0..RngMod-1: np.random.seed sets the whole state from the seed, each
\* uniform sample advances the state, and the sample is state / RngMod.
RngMod == 16

RngMul == 5

RngInc == 3

\* np.random.seed left out: the generator goes on from where it is
SeedStateKept(seed) == rng

\* np.random.seed(seed)
SeedState(seed) == seed % RngMod

RngNext(s) == (RngMul * s + RngInc) % RngMod

RECURSIVE RngAfter(_, _)
\* the state after n uniform samples
RngAfter(s, n) == IF n = 0 THEN s ELSE RngAfter(RngNext(s), n - 1)

\* the probabilities in the other order: p=[sparseness, 1-sparseness]
ChoiceSwapped(s, sparseness) == IF s * 100 >= sparseness * RngMod THEN 1 ELSE 0

\* np.random.choice([0, 1], p=[1-sparseness, sparseness]) of one uniform
\* sample u = s / RngMod: the index of the first cdf entry above u, with
\* cdf = [1-sparseness, 1], so 1 iff u >= 1 - sparseness.
Choice(s, sparseness) == IF s * 100 >= (100 - sparseness) * RngMod THEN 1 ELSE 0

\* the board drawn from state s0, cell by cell in row-major order
RandomBoard(s0, dim, sparseness) ==
    [p \in Pos(dim) |-> Choice(RngAfter(s0, p[1] * dim + p[2] + 1), sparseness)]

\* ---- _step_unoptimized ----
\* numpy's + on two cells of an array of the given dtype: on bool it is
\* logical or, on int64 and float64 the sum
NpAdd(dtype, a, b) ==
    IF dtype = "bool" THEN (IF a + b > 0 THEN 1 ELSE 0) ELSE a + b

\* the fourth read taken from column j + 1 instead of j - 1
NaiveReadsSameColumn(dim, i, j) ==
    << <<(i + 1) % dim, j % dim>>,
       <<i % dim, (j + 1) % dim>>,
       <<(i - 1) % dim, j % dim>>,
       <<i, (j + 1) % dim>>,
       <<(i + 1) % dim, (j + 1) % dim>>,
       <<(i - 1) % dim, (j + 1) % dim>>,
       <<(i - 1) % dim, (j - 1) % dim>>,
       <<(i + 1) % dim, (j - 1) % dim>> >>

\* the first read without its modulo
NaiveReadsNoWrap(dim, i, j) ==
    << <<i + 1, j % dim>>,
       <<i % dim, (j + 1) % dim>>,
       <<(i - 1) % dim, j % dim>>,
       <<i, (j - 1) % dim>>,
       <<(i + 1) % dim, (j + 1) % dim>>,
       <<(i - 1) % dim, (j + 1) % dim>>,
       <<(i - 1) % dim, (j - 1) % dim>>,
       <<(i + 1) % dim, (j - 1) % dim>> >>

\* the eight index pairs read for cell <<i, j>>, in the order of the source
NaiveReads(dim, i, j) ==
    << <<(i + 1) % dim, j % dim>>,
       <<i % dim, (j + 1) % dim>>,
       <<(i - 1) % dim, j % dim>>,
       <<i, (j - 1) % dim>>,
       <<(i + 1) % dim, (j + 1) % dim>>,
       <<(i - 1) % dim, (j + 1) % dim>>,
       <<(i - 1) % dim, (j - 1) % dim>>,
       <<(i + 1) % dim, (j - 1) % dim>> >>

RECURSIVE SumReads(_, _, _, _)
\* board[r1] + board[r2] + ... + board[rn], left to right
SumReads(board, dtype, reads, n) ==
    IF n = 1 THEN board[reads[1]]
    ELSE NpAdd(dtype, SumReads(board, dtype, reads, n - 1), board[reads[n]])

\* temp_sum of cell <<i, j>>
TempSum(board, dtype, dim, i, j) ==
    SumReads(board, dtype, NaiveReads(dim, i, j), 8)

\* the overcrowding test written temp_sum >= 3
NaiveCellOffByOne(cur, temp_sum) ==
    IF cur = 1
    THEN (IF temp_sum < 2 \/ temp_sum >= 3 THEN 0 ELSE 1)
    ELSE IF cur = 0
         THEN (IF temp_sum = 3 THEN 1 ELSE 0)
         ELSE 0

\* the value written to temp_board[i, j] (np.zeros: 0 where nothing is written)
NaiveCell(cur, temp_sum) ==
    IF cur = 1
    THEN (IF temp_sum < 2 \/ temp_sum > 3 THEN 0 ELSE 1)
    ELSE IF cur = 0
         THEN (IF temp_sum = 3 THEN 1 ELSE 0)
         ELSE 0

\* an index numpy rejects with IndexError (a negative index down to -dim wraps)
BadIndex(dim, r) ==
    \/ r[1] >= dim \/ r[1] < 0 - dim
    \/ r[2] >= dim \/ r[2] < 0 - dim

NaiveIndexError(dim) ==
    \E p \in Pos(dim) : \E k \in 1 .. 8 : BadIndex(dim, NaiveReads(dim, p[1], p[2])[k])

StepUnoptimizedBoard(board, dtype, dim) ==
    [p \in Pos(dim) |-> NaiveCell(board[p], TempSum(board, dtype, dim, p[1], p[2]))]

\* ---- _step_optimized ----
\* a kernel that counts the cell itself
ConvKernelFull == << <<1, 1, 1>>,
                     <<1, 1, 1>>,
                     <<1, 1, 1>> >>

\* conv_kernel
ConvKernel == << <<1, 1, 1>>,
                 <<1, 0, 1>>,
                 <<1, 1, 1>> >>

\* the edge repeated instead of wrapped
WrapIndexClamp(x, dim) == IF x < 0 THEN 0 ELSE IF x >= dim THEN dim - 1 ELSE x

\* boundary="wrap": the index of the input read for an index off the grid
WrapIndex(x, dim) == x % dim

\* the input position kernel tap <<a, b>> (0-based) multiplies for output
\* <<m, n>> under mode="same": in1[m + 1 - a, n + 1 - b]
ConvRead(dim, m, n, a, b) ==
    <<WrapIndex(m + 1 - a, dim), WrapIndex(n + 1 - b, dim)>>

RECURSIVE ConvSum(_, _, _, _, _)
\* the sum over the kernel taps 0 .. t-1 (row-major) of tap * input
ConvSum(board, dim, m, n, t) ==
    IF t = 0 THEN 0
    ELSE LET a == (t - 1) \div 3
             b == (t - 1) % 3
         IN ConvSum(board, dim, m, n, t - 1)
            + ConvKernel[a + 1][b + 1] * board[ConvRead(dim, m, n, a, b)]

\* temp_board = convolve2d(self.board, conv_kernel, mode="same", boundary="wrap");
\* a bool or int64 board is convolved in int64, a float64 board in float64
Convolve2d(board, dim) ==
    [p \in Pos(dim) |-> ConvSum(board, dim, p[1], p[2], 9)]

\* one cell of the logical_or(logical_and(..), logical_and(..)) expression
OptimizedCell(cur, cnt) ==
    IF \/ (cur = 1 /\ (cnt = 2 \/ cnt = 3))
       \/ (cur = 0 /\ cnt = 3)
    THEN 1 ELSE 0

\* the neighbour counts kept as the board, the rule left out
StepOptimizedCounts(board, dim) == Convolve2d(board, dim)

StepOptimizedBoard(board, dim) ==
    LET temp_board == Convolve2d(board, dim)
    IN [p \in Pos(dim) |-> OptimizedCell(board[p], temp_board[p])]

\* ---- the simulations ----
\* pc: "none" before construction, "idle" once constructed, "loop" inside
\* run_and_plot's for loop, "done" after it, "raised" when an exception left
\* the constructor or a method, "naive" inside the loops of _step_unoptimized
\* when the step is followed cell by cell (temp_board and the number k of
\* cells visited are its locals).
Unborn ==
    [pc |-> "none", dim |-> 0, max_step |-> 0, sparseness |-> 0,
     board |-> NoBoard, dtype |-> "none", j |-> 0, optimized |-> TRUE,
     nNaive |-> 0, nOpt |-> 0, err |-> "none",
     temp_board |-> NoBoard, k |-> 0]

\* GameofLife.__init__: a negative dim makes np.random.choice raise
\* ValueError after the fields are set and the generator is seeded
Construct(o) ==
    /\ sim[o].pc = "none"
    /\ UNCHANGED args
    /\ LET dim == args.dim
           sparseness == args.sparseness
           s0 == SeedState(args.seed)
           fields == [Unborn EXCEPT !.dim = dim, !.max_step = args.max_step,
                                    !.sparseness = sparseness]
       IN IF dim < 0
          THEN /\ rng' = s0
               /\ sim' = [sim EXCEPT ![o] =
                              [fields EXCEPT !.pc = "raised", !.err = "ValueError"]]
          ELSE /\ rng' = RngAfter(s0, dim * dim)
               /\ sim' = [sim EXCEPT ![o] =
                              [fields EXCEPT !.pc = "idle", !.dtype = "int64",
                                             !.board = RandomBoard(s0, dim, sparseness)]]

\* some other simulation is constructed: all it shares is the generator,
\* which only a later __init__ reads
ConstructOther(dim, seed) ==
    /\ \E o \in Objs : sim[o].pc = "none"
    /\ rng' = RngAfter(SeedState(seed), dim * dim)
    /\ rng' # rng
    /\ UNCHANGED <<args, sim>>

\* the state of a simulation after self._step_unoptimized()
AfterStepUnoptimized(g) ==
    IF NaiveIndexError(g.dim)
    THEN [g EXCEPT !.pc = "raised", !.err = "IndexError"]
    ELSE [g EXCEPT !.board = StepUnoptimizedBoard(g.board, g.dtype, g.dim),
                   !.dtype = "float64",
                   !.nNaive = g.nNaive + 1]

\* the state of a simulation after self._step_optimized()
AfterStepOptimized(g) ==
    [g EXCEPT !.board = StepOptimizedBoard(g.board, g.dim),
              !.dtype = "bool",
              !.nOpt = g.nOpt + 1]

\* a caller calls game._step_unoptimized()
CallStepUnoptimized(o) ==
    /\ sim[o].pc = "idle"
    /\ sim[o].nNaive + sim[o].nOpt < MaxCalls
    /\ sim' = [sim EXCEPT ![o] = AfterStepUnoptimized(sim[o])]
    /\ UNCHANGED <<args, rng>>

\* a caller calls game._step_optimized()
CallStepOptimized(o) ==
    /\ sim[o].pc = "idle"
    /\ sim[o].nNaive + sim[o].nOpt < MaxCalls
    /\ sim' = [sim EXCEPT ![o] = AfterStepOptimized(sim[o])]
    /\ UNCHANGED <<args, rng>>

\* run_and_plot(optimized): entry, up to the for loop
RunAndPlot(o, optimized) ==
    /\ sim[o].pc = "idle"
    /\ sim[o].nNaive + sim[o].nOpt = 0
    /\ sim' = [sim EXCEPT ![o] = [@ EXCEPT !.pc = "loop", !.j = 0,
                                            !.optimized = optimized]]
    /\ UNCHANGED <<args, rng>>

\* one iteration of `for j in range(self.max_step)` with optimized=True
LoopOptimized(o) ==
    /\ sim[o].pc = "loop"
    /\ sim[o].j < sim[o].max_step
    /\ sim[o].optimized
    /\ sim' = [sim EXCEPT ![o] = [AfterStepOptimized(@) EXCEPT !.j = @ + 1]]
    /\ UNCHANGED <<args, rng>>

\* one iteration with optimized=False: self._mixed() is not an attribute of
\* GameofLife, so the call raises AttributeError
LoopMixed(o) ==
    /\ sim[o].pc = "loop"
    /\ sim[o].j < sim[o].max_step
    /\ ~sim[o].optimized
    /\ sim' = [sim EXCEPT ![o] = [@ EXCEPT !.pc = "raised", !.err = "AttributeError"]]
    /\ UNCHANGED <<args, rng>>

\* the loop left one iteration early: range(self.max_step - 1)
LoopExitEarly(o) ==
    /\ sim[o].pc = "loop"
    /\ sim[o].j >= sim[o].max_step - 1
    /\ sim' = [sim EXCEPT ![o] = [@ EXCEPT !.pc = "done"]]
    /\ UNCHANGED <<args, rng>>

\* the range is exhausted: run_and_plot returns
LoopExit(o) ==
    /\ sim[o].pc = "loop"
    /\ sim[o].j >= sim[o].max_step
    /\ sim' = [sim EXCEPT ![o] = [@ EXCEPT !.pc = "done"]]
    /\ UNCHANGED <<args, rng>>

\* ---- _step_unoptimized, cell by cell ----
\* The program has one thread: while a step runs nothing else does.
NoStepRunning == \A x \in Objs : sim[x].pc # "naive"

\* temp_board = self.board instead of a new array: every write lands in
\* the board too
NaiveWriteAliased(g, p, v) ==
    [g EXCEPT !.temp_board[p] = v, !.board[p] = v]

\* temp_board[i, j] = v
NaiveWrite(g, p, v) ==
    [g EXCEPT !.temp_board[p] = v]

\* temp_board = np.zeros((self.dim, self.dim))
NaiveBegin(o) ==
    /\ NoStepRunning
    /\ sim[o].pc = "idle"
    /\ sim[o].nNaive + sim[o].nOpt < MaxCalls
    /\ sim' = [sim EXCEPT ![o] =
                   [@ EXCEPT !.pc = "naive", !.k = 0,
                             !.temp_board = [p \in Pos(sim[o].dim) |-> 0]]]
    /\ UNCHANGED <<args, rng>>

\* the body of the two for loops for the next cell <<i, j>>, row by row
NaiveVisit(o) ==
    /\ sim[o].pc = "naive"
    /\ sim[o].k < sim[o].dim * sim[o].dim
    /\ LET g == sim[o]
           i == g.k \div g.dim
           j == g.k % g.dim
       IN sim' = [sim EXCEPT ![o] =
              IF \E n \in 1 .. 8 : BadIndex(g.dim, NaiveReads(g.dim, i, j)[n])
              THEN [g EXCEPT !.pc = "raised", !.err = "IndexError"]
              ELSE [NaiveWrite(g, <<i, j>>,
                               NaiveCell(g.board[<<i, j>>],
                                         TempSum(g.board, g.dtype, g.dim, i, j)))
                      EXCEPT !.k = g.k + 1]]
    /\ UNCHANGED <<args, rng>>

\* the loops are over: self.board = temp_board
NaiveReturn(o) ==
    /\ sim[o].pc = "naive"
    /\ sim[o].k >= sim[o].dim * sim[o].dim
    /\ sim' = [sim EXCEPT ![o] =
                   [@ EXCEPT !.pc = "idle", !.board = sim[o].temp_board,
                             !.dtype = "float64", !.nNaive = @ + 1,
                             !.temp_board = NoBoard, !.k = 0]]
    /\ UNCHANGED <<args, rng>>

\* ---- the program: simulations constructed from a seed and run ----
Args ==
    [dim : -1 .. MaxDim, max_step : 0 .. MaxStep, seed : 0 .. MaxSeed,
     sparseness : Sparsenesses]

Init ==
    /\ args \in Args
    /\ rng = 0
    /\ sim = [o \in Objs |-> Unborn]

Next ==
    \/ \E o \in Objs : Construct(o)
    \/ \E dim \in 1 .. MaxDim, seed \in 0 .. MaxSeed : ConstructOther(dim, seed)
    \/ \E o \in Objs : CallStepUnoptimized(o)
    \/ \E o \in Objs : CallStepOptimized(o)
    \/ \E o \in Objs, optimized \in BOOLEAN : RunAndPlot(o, optimized)
    \/ \E o \in Objs : LoopOptimized(o)
    \/ \E o \in Objs : LoopMixed(o)
    \/ \E o \in Objs : LoopExit(o)

Spec == Init /\ [][Next]_vars

\* ---- the steps applied to every grid: both simulations hold the same ----
\* ---- freshly constructed board                                       ----
Constructed(dim, board) ==
    [Unborn EXCEPT !.pc = "idle", !.dim = dim, !.sparseness = 50,
                   !.dtype = "int64", !.board = board]

GridArgs(dim) == [dim |-> dim, max_step |-> 0, seed |-> 0, sparseness |-> 50]

InitGrid ==
    /\ rng = 0
    /\ \E dim \in 1 .. MaxDim : \E board \in [Pos(dim) -> {0, 1}] :
          /\ args = GridArgs(dim)
          /\ sim = [o \in Objs |-> Constructed(dim, board)]

NextGrid ==
    \/ \E o \in Objs : CallStepUnoptimized(o)
    \/ \E o \in Objs : CallStepOptimized(o)

SpecGrid == InitGrid /\ [][NextGrid]_vars

\* ---- the naive step followed cell by cell, from every grid ----
NextLoop ==
    \/ \E o \in Objs : NaiveBegin(o)
    \/ \E o \in Objs : NaiveVisit(o)
    \/ \E o \in Objs : NaiveReturn(o)

SpecLoop == InitGrid /\ [][NextLoop]_vars

\* ---- the steps applied to the sparse grids of larger dimension ----
SparseGrids(dim) ==
    {[p \in Pos(dim) |-> IF p \in live THEN 1 ELSE 0] :
        live \in {l \in SUBSET Pos(dim) : Cardinality(l) <= MaxLive}}

InitSparse ==
    /\ rng = 0
    /\ \E dim \in 1 .. MaxSparseDim : \E board \in SparseGrids(dim) :
          /\ args = GridArgs(dim)
          /\ sim = [o \in Objs |-> Constructed(dim, board)]

SpecSparse == InitSparse /\ [][NextGrid]_vars

\* ---- the steps applied to malformed boards: a caller has assigned a ----
\* ---- board with cells other than 0 and 1                            ----
InitInvalid ==
    /\ rng = 0
    /\ \E dim \in 1 .. MaxBadDim : \E board \in [Pos(dim) -> 0 .. MaxCell] :
          /\ args = GridArgs(dim)
          /\ sim = [o \in Objs |-> Constructed(dim, board)]

SpecInvalid == InitInvalid /\ [][NextGrid]_vars

\* ---- vocabulary of the properties ----
Alive(v) == v = 1

\* simulations a and b hold grids of one size with the same cells ALIVE
SameCells(a, b) ==
    /\ a.dim = b.dim
    /\ \A p \in Pos(a.dim) : Alive(a.board[p]) <=> Alive(b.board[p])

AllDead(g) == \A p \in Pos(g.dim) : ~Alive(g.board[p])

AllAlive(g) == \A p \in Pos(g.dim) : Alive(g.board[p])

\* no step has been applied to g since its construction
Untouched(g) == g.pc = "idle" /\ g.nNaive = 0 /\ g.nOpt = 0

\* the eight neighbour offsets
Offsets == ({-1, 0, 1} \X {-1, 0, 1}) \ {<<0, 0>>}

RECURSIVE OffsetSum(_, _, _, _)
\* the sum of the cells at the given offsets from p, indices modulo dim
OffsetSum(board, dim, p, offs) ==
    IF offs = {} THEN 0
    ELSE LET d == CHOOSE x \in offs : TRUE
         IN board[<<(p[1] + d[1]) % dim, (p[2] + d[2]) % dim>>]
            + OffsetSum(board, dim, p, offs \ {d})

\* the rule table of the specification
RuleTable(cur, count) ==
    CASE cur = 1 /\ count < 2 -> 0
      [] cur = 1 /\ count \in {2, 3} -> 1
      [] cur = 1 /\ count > 3 -> 0
      [] cur = 0 /\ count = 3 -> 1
      [] OTHER -> 0

\* in this transition simulation o took a naive / an optimized step
NaiveStepOf(o) == sim'[o].nNaive = sim[o].nNaive + 1

OptimizedStepOf(o) == sim'[o].nOpt = sim[o].nOpt + 1

\* ---- C1 ----
\* C1: two simulations started from the same grid, one advanced k times by
\* the naive step only and the other k times by the optimized step only,
\* hold grids with the same cells ALIVE (SpecGrid starts both simulations
\* from the same grid, every 0/1 grid of dimension 1..MaxDim).
C1_StrategiesAgree ==
    \A a, b \in Objs :
        (/\ sim[a].nOpt = 0
         /\ sim[b].nNaive = 0
         /\ sim[a].nNaive = sim[b].nOpt)
        => (sim[a].pc = "idle" /\ sim[b].pc = "idle" /\ SameCells(sim[a], sim[b]))

C1_Witness ==
    /\ sim["game"].nNaive = 2 /\ sim["game"].nOpt = 0
    /\ sim["game2"].nOpt = 2 /\ sim["game2"].nNaive = 0
    /\ sim["game"].dim = 3
    /\ \E p, q \in Pos(3) : Alive(sim["game"].board[p]) /\ ~Alive(sim["game"].board[q])

\* ---- C2 ----
\* C2: a naive step on a grid of numeric 0/1 cells (the int64 board of the
\* constructor, the float64 board of an earlier naive step) sets every cell
\* to the rule table's value for the cell's prior state and the sum of the
\* prior cells at the eight offsets, indices modulo N.
C2_NaiveFollowsRuleTable ==
    [][\A o \in Objs :
          (NaiveStepOf(o) /\ sim[o].dtype # "bool")
          => \A p \in Pos(sim[o].dim) :
                sim'[o].board[p]
                  = RuleTable(sim[o].board[p],
                              OffsetSum(sim[o].board, sim[o].dim, p, Offsets))]_vars

\* a birth and a survival in one naive step from the grid game2 still holds
C2_Witness ==
    /\ sim["game"].nNaive = 1 /\ sim["game"].nOpt = 0
    /\ Untouched(sim["game2"])
    /\ sim["game"].dim = 3
    /\ \E p, q \in Pos(3) :
          /\ sim["game2"].board[p] = 0 /\ sim["game"].board[p] = 1
          /\ sim["game2"].board[q] = 1 /\ sim["game"].board[q] = 1

\* ---- C3 ----
\* C3 (as claimed): a run with optimized=False does not raise, and when it
\* has finished the board has been advanced by max_step naive steps.
C3_NaiveRunFinishes ==
    \A o \in Objs :
        (sim[o].pc \in {"loop", "done", "raised"} /\ sim[o].err # "ValueError"
         /\ ~sim[o].optimized)
        => /\ sim[o].pc # "raised"
           /\ sim[o].pc = "done" => sim[o].nNaive = sim[o].max_step

\* ---- C4 ----
\* the cells of the 2x2 block whose top-left cell is <<r, c>>, on the torus
BlockCells(r, c, dim) ==
    {<<r, c>>, <<r, (c + 1) % dim>>, <<(r + 1) % dim, c>>,
     <<(r + 1) % dim, (c + 1) % dim>>}

\* the ALIVE cells of g are exactly those of one 2x2 block
IsBlock(g) ==
    \E r, c \in Range(g.dim) :
        \A p \in Pos(g.dim) : Alive(g.board[p]) <=> p \in BlockCells(r, c, g.dim)

\* C4 (as claimed): for every N >= 2 and every placement of a 2x2 block
\* as the only ALIVE cells of the starting grid, a simulation advanced by
\* one strategy only holds the starting grid's cells after every step
\* (both simulations start from the same grid; an untouched one still
\* holds it).
C4_BlockStillLifeFrom2 ==
    \A a, b \in Objs :
        (/\ Untouched(sim[b]) /\ sim[b].dim >= 2 /\ IsBlock(sim[b])
         /\ (sim[a].nOpt = 0 \/ sim[a].nNaive = 0))
        => SameCells(sim[a], sim[b])

\* C4 (amended): the same for every N >= 3.
C4_BlockStillLifeFrom3 ==
    \A a, b \in Objs :
        (/\ Untouched(sim[b]) /\ sim[b].dim >= 3 /\ IsBlock(sim[b])
         /\ (sim[a].nOpt = 0 \/ sim[a].nNaive = 0))
        => SameCells(sim[a], sim[b])

\* the naive step has been applied twice to a block that wraps around
\* both edges of a 4x4 grid
C4_Witness ==
    /\ Untouched(sim["game2"])
    /\ sim["game"].nNaive = 2 /\ sim["game"].nOpt = 0
    /\ sim["game"].dim = 4
    /\ \A o \in Objs : \A p \in Pos(4) :
          Alive(sim[o].board[p]) <=> p \in BlockCells(3, 3, 4)

\* ---- C5 ----
\* the only ALIVE cell of g is the origin
IsLoneOrigin(g) ==
    \A p \in Pos(g.dim) : Alive(g.board[p]) <=> p = <<0, 0>>

\* the eight toroidal neighbours of the origin, as the specification lists them
OriginNeighbours(n) ==
    {<<n - 1, n - 1>>, <<n - 1, 0>>, <<0, n - 1>>, <<n - 1, 1>>,
     <<1, n - 1>>, <<0, 1>>, <<1, 0>>, <<1, 1>>}

\* C5: when the starting grid has dimension N >= 3 and the origin as its
\* only ALIVE cell, both strategies count 1 neighbour for each of the
\* eight listed cells and 0 for the origin, and after one step of either
\* strategy every cell is DEAD.
C5_LoneCellDies ==
    \A a, b \in Objs :
        (Untouched(sim[b]) /\ sim[b].dim >= 3 /\ IsLoneOrigin(sim[b]))
        => LET g == sim[b]
               conv == Convolve2d(g.board, g.dim)
           IN /\ \A p \in OriginNeighbours(g.dim) :
                    /\ TempSum(g.board, g.dtype, g.dim, p[1], p[2]) = 1
                    /\ conv[p] = 1
              /\ TempSum(g.board, g.dtype, g.dim, 0, 0) = 0
              /\ conv[<<0, 0>>] = 0
              /\ (sim[a].nNaive + sim[a].nOpt = 1) => AllDead(sim[a])

\* one step has been applied to the lone origin cell that game2 still holds
C5_Witness ==
    /\ Untouched(sim["game2"])
    /\ sim["game2"].dim = 4
    /\ IsLoneOrigin(sim["game2"])
    /\ sim["game"].nNaive + sim["game"].nOpt = 1
    /\ AllDead(sim["game"])

\* ---- C6 ----
\* C6: a simulation constructed with dim >= 1 and sparseness 0 holds an
\* all-DEAD grid before and after any number of steps; one constructed with
\* sparseness 1 holds an all-ALIVE grid before its first step and an
\* all-DEAD grid after it; neither the constructor (ValueError) nor a step
\* (IndexError) raises.
C6_BoundaryDensity ==
    \A o \in Objs :
        (sim[o].pc # "none" /\ sim[o].dim >= 1 /\ sim[o].sparseness \in {0, 100})
        => /\ sim[o].err \notin {"ValueError", "IndexError"}
           /\ DOMAIN sim[o].board = Pos(sim[o].dim)
           /\ sim[o].sparseness = 0 => AllDead(sim[o])
           /\ (sim[o].sparseness = 100 /\ sim[o].nNaive + sim[o].nOpt = 0)
                 => AllAlive(sim[o])
           /\ (sim[o].sparseness = 100 /\ sim[o].nNaive + sim[o].nOpt >= 1)
                 => AllDead(sim[o])

\* an all-ALIVE 3x3 board after one naive step, and after two optimized ones
C6_Witness ==
    /\ sim["game"].sparseness = 100 /\ sim["game"].dim = 3
    /\ sim["game"].nNaive = 1 /\ sim["game"].nOpt = 0
    /\ sim["game2"].pc = "done" /\ sim["game2"].nOpt = 2
    /\ AllDead(sim["game"]) /\ AllDead(sim["game2"])

\* ---- C7 ----
\* C7 (as claimed): constructing a simulation with dim <= 0 raises: no
\* board is produced and no step is taken on it.
C7_InvalidDimensionRejected ==
    \A o \in Objs :
        (sim[o].pc # "none" /\ sim[o].dim <= 0)
        => /\ sim[o].pc = "raised"
           /\ sim[o].err = "ValueError"
           /\ sim[o].nNaive + sim[o].nOpt = 0

\* ---- C8 ----
\* the count of a cell of a 1x1 or 2x2 torus when each of the eight offsets
\* contributes once: on 1x1 all eight are the cell itself; on 2x2 the
\* horizontal and the vertical neighbour are met twice and the diagonal one
\* four times
SmallTorusCount(board, dim, p) ==
    IF dim = 1 THEN 8 * board[<<0, 0>>]
    ELSE 2 * board[<<p[1], 1 - p[2]>>] + 2 * board[<<1 - p[1], p[2]>>]
         + 4 * board[<<1 - p[1], 1 - p[2]>>]

\* the position offset d from p leads to on the torus
Wrapped(p, d, dim) == <<(p[1] + d[1]) % dim, (p[2] + d[2]) % dim>>

\* the kernel taps of weight 1
Taps == {t \in (0 .. 2) \X (0 .. 2) : ConvKernel[t[1] + 1][t[2] + 1] = 1}

\* C8: on grids of dimension 1 and 2 no step raises; every index either
\* strategy reads lies in 0..N-1; each strategy reads a position as many
\* times as there are offsets that wrap to it, eight reads in all; and the
\* neighbour count has one contribution per offset (the convolution's, and
\* the naive sum on the numeric boards the constructor and the naive step
\* make).
C8_SmallTorus ==
    \A o \in Objs :
        sim[o].dim \in {1, 2}
        => LET g == sim[o]
           IN /\ g.pc = "idle"
              /\ \A p \in Pos(g.dim) :
                    LET reads == NaiveReads(g.dim, p[1], p[2])
                    IN /\ Len(reads) = 8 /\ Cardinality(Taps) = 8
                       /\ \A k \in 1 .. 8 : reads[k] \in Pos(g.dim)
                       /\ \A t \in Taps : ConvRead(g.dim, p[1], p[2], t[1], t[2]) \in Pos(g.dim)
                       /\ \A q \in Pos(g.dim) :
                             LET n == Cardinality({d \in Offsets : Wrapped(p, d, g.dim) = q})
                             IN /\ Cardinality({k \in 1 .. 8 : reads[k] = q}) = n
                                /\ Cardinality({t \in Taps :
                                       ConvRead(g.dim, p[1], p[2], t[1], t[2]) = q}) = n
                       /\ g.dtype # "bool"
                             => TempSum(g.board, g.dtype, g.dim, p[1], p[2])
                                  = SmallTorusCount(g.board, g.dim, p)
                       /\ Convolve2d(g.board, g.dim)[p] = SmallTorusCount(g.board, g.dim, p)

\* both steps have been applied, one after the other, to the 1x1 grid
\* whose cell is ALIVE (game2 still holds it)
C8_Witness ==
    /\ Untouched(sim["game2"])
    /\ sim["game2"].dim = 1 /\ AllAlive(sim["game2"])
    /\ sim["game"].pc = "idle"
    /\ sim["game"].nNaive = 1 /\ sim["game"].nOpt = 1

\* ---- C9 ----
\* C9: two simulations constructed with the same arguments hold the same
\* board at construction and after the same number of steps of one
\* strategy, whatever was constructed or stepped in between.
C9_SameArgsSameBoards ==
    \A a, b \in Objs :
        (/\ sim[a].pc # "none" /\ sim[b].pc # "none"
         /\ sim[a].err # "ValueError" /\ sim[b].err # "ValueError"
         /\ sim[a].dim = sim[b].dim /\ sim[a].sparseness = sim[b].sparseness
         /\ sim[a].nNaive = sim[b].nNaive /\ sim[a].nOpt = sim[b].nOpt
         /\ (sim[a].nNaive = 0 \/ sim[a].nOpt = 0))
        => (sim[a].board = sim[b].board /\ sim[a].dtype = sim[b].dtype)

\* two 3x3 simulations of sparseness 0.5 after one optimized step each,
\* with cells ALIVE
C9_Witness ==
    /\ \A o \in Objs : sim[o].dim = 3 /\ sim[o].sparseness = 50 /\ sim[o].nOpt = 1
    /\ \E p \in Pos(3) : Alive(sim["game"].board[p])

\* ---- C10 ----
Malformed(g) == \E p \in Pos(g.dim) : g.board[p] \notin {0, 1}

\* C10 (as claimed): a step applied to a board with a cell other than 0
\* and 1 raises and leaves the board as it was.
C10_MalformedRejected ==
    [][\A o \in Objs :
          (Malformed(sim[o]) /\ sim'[o] # sim[o])
          => (sim'[o].pc = "raised" /\ sim'[o].board = sim[o].board)]_vars

\* ---- C11 ----
\* the row-major number of cell p
CellNumber(p, dim) == p[1] * dim + p[2]

\* C11: while a naive step runs, self.board is the board the step started
\* from (the one a simulation with the same start and as many finished
\* steps holds), temp_board holds for every visited cell the rule's value
\* for that prior board and 0 for the others, and the board the step
\* leaves is the step function of the prior board alone.
C11_NaiveReadsPriorGrid ==
    \A a, b \in Objs :
        (sim[b].pc = "idle" /\ sim[a].nOpt = 0 /\ sim[b].nOpt = 0)
        => /\ (sim[a].pc = "naive" /\ sim[a].nNaive = sim[b].nNaive)
                => /\ sim[a].board = sim[b].board
                   /\ sim[a].dtype = sim[b].dtype
                   /\ \A p \in Pos(sim[a].dim) :
                         sim[a].temp_board[p]
                           = IF CellNumber(p, sim[a].dim) < sim[a].k
                             THEN NaiveCell(sim[b].board[p],
                                            TempSum(sim[b].board, sim[b].dtype,
                                                    sim[b].dim, p[1], p[2]))
                             ELSE 0
           /\ (sim[a].pc = "idle" /\ sim[a].nNaive = sim[b].nNaive + 1)
                => sim[a].board
                     = StepUnoptimizedBoard(sim[b].board, sim[b].dtype, sim[b].dim)

\* half-way through a naive step of a 3x3 grid, a cell already written
\* ALIVE in temp_board that is DEAD in the board, which game2 holds too
C11_Witness ==
    /\ Untouched(sim["game2"])
    /\ sim["game"].pc = "naive" /\ sim["game"].dim = 3
    /\ sim["game"].k = 5
    /\ sim["game"].temp_board[<<0, 0>>] = 1
    /\ sim["game"].board[<<0, 0>>] = 0
    /\ sim["game"].board = sim["game2"].board

\* ---- C12 ----
RECURSIVE Generation(_, _, _)
\* generation n of the optimized strategy from generation 0
Generation(board, dim, n) ==
    IF n = 0 THEN board
    ELSE StepOptimizedBoard(Generation(board, dim, n - 1), dim)

\* the board the constructor draws from the script's arguments
Generation0 == RandomBoard(SeedState(args.seed), args.dim, args.sparseness)

\* C12: in a run with optimized=True the board after j iterations is
\* generation j of the constructed board, reached by j optimized steps and
\* no other; the loop can always go on or return while j <= max_step; and
\* when the run has returned j = max_step (with max_step = 0 the board is
\* the constructed one).
C12_OptimizedRun ==
    \A o \in Objs :
        (sim[o].pc \in {"loop", "done"} /\ sim[o].optimized)
        => /\ sim[o].nNaive = 0
           /\ sim[o].nOpt = sim[o].j
           /\ sim[o].j <= sim[o].max_step
           /\ sim[o].board = Generation(Generation0, sim[o].dim, sim[o].j)
           /\ sim[o].pc = "loop" => ENABLED (LoopOptimized(o) \/ LoopExit(o))
           /\ sim[o].pc = "done" => sim[o].j = sim[o].max_step

\* a finished run of two steps on a 3x3 board, beside a run of the same
\* board that is one step in and has cells ALIVE
C12_Witness ==
    /\ sim["game"].pc = "done" /\ sim["game"].optimized
    /\ sim["game"].max_step = 2 /\ sim["game"].nOpt = 2
    /\ sim["game"].dim = 3 /\ sim["game"].sparseness = 50
    /\ sim["game2"].pc = "loop" /\ sim["game2"].j = 1
    /\ \E p \in Pos(3) : Alive(sim["game2"].board[p])

\* ---- C13 ----
\* C13: a simulation constructed with dim = N >= 1 holds, after its
\* construction and after every naive or optimized step, an N x N board of
\* one of numpy's three dtypes whose cells are all 0 (False) or 1 (True).
C13_BoardShape ==
    \A o \in Objs :
        (sim[o].pc # "none" /\ args.dim >= 1)
        => /\ sim[o].dim = args.dim
           /\ DOMAIN sim[o].board = Pos(args.dim)
           /\ \A p \in Pos(args.dim) : sim[o].board[p] \in {0, 1}
           /\ sim[o].dtype \in {"int64", "float64", "bool"}

\* a 3x3 board after an optimized and then a naive step, beside the bool
\* board one optimized step leaves, with cells ALIVE
C13_Witness ==
    /\ sim["game"].dim = 3
    /\ sim["game"].nNaive = 1 /\ sim["game"].nOpt = 1
    /\ sim["game"].dtype = "float64"
    /\ sim["game2"].dtype = "bool" /\ sim["game2"].nOpt = 1
    /\ \E p \in Pos(3) : Alive(sim["game2"].board[p])

\* ---- C14 ----
\* C14 (as claimed): a simulation advanced by k steps, each of either
\* strategy, holds the same cells ALIVE as one advanced from the same grid
\* by k naive steps.
C14_MixedEqualsNaive ==
    \A a, b \in Objs :
        (/\ sim[a].pc = "idle" /\ sim[b].pc = "idle"
         /\ sim[b].nOpt = 0
         /\ sim[a].nNaive + sim[a].nOpt = sim[b].nNaive)
        => SameCells(sim[a], sim[b])

=============================================================================
